---- MODULE Spec2Model ----
(***************************************************************************)
(* Model of nextdns_blocklist_manager.py: one reconciliation run of the    *)
(* NextDNS denylist against the domains parsed from the source lists.      *)
(*                                                                         *)
(* A string is a sequence of one-character strings, so that strip, split   *)
(* and sorted are computed character by character as Python computes them. *)
(***************************************************************************)
EXTENDS Naturals, Sequences, FiniteSets

VARIABLES
    pc,                 \* position of the driver (__main__)
    api_key,            \* TRUE when NEXTDNS_API_KEY is set and non-empty
    profile_id,         \* TRUE when NEXTDNS_PROFILE_ID is set and non-empty
    url_idx,            \* index in blocklist_urls of the next source to fetch
    response,           \* body of the last source response, or NoResponse
    domains,            \* the set accumulated by get_remote_blocklist_domains
    desired_domains,    \* __main__: desired_domains
    current_domains,    \* __main__: current_domains
    domains_to_add,     \* __main__: domains_to_add
    domains_to_remove,  \* __main__: domains_to_remove
    pending,            \* domains the running for-loop has not yet visited
    remote,             \* the denylist held by the NextDNS service
    ext_writes,         \* writes another client made to the denylist in this run
    calls,              \* every network request issued so far, in order
    exit_code,          \* <<status>> once the process has exited, Running before
    ok_status,          \* status the service answers an applied add or remove with
    served,             \* what each source fetched so far in this run answered
    prev                \* summary of the previous run of the script, NoRun in a first run

vars == <<pc, api_key, profile_id, url_idx, response, domains, desired_domains,
          current_domains, domains_to_add, domains_to_remove, pending, remote,
          ext_writes, calls, exit_code,
          ok_status,
          served,
          prev>>

(***************************************************************************)
(* Bounds of the model.                                                    *)
(***************************************************************************)
\* number of URLs in blocklists.txt
NumSources == 2
\* the parser is run on every body of at most MaxPieces pieces
MaxPieces == 3
\* number of lines of the long source list
BigCount == 21
\* runs are followed into the appliers when the delta has at most MaxDelta domains
MaxDelta == 3
\* writes by another client between the baseline read and the end of the run
MaxExtWrites == 1
\* a second run is followed after runs that left at most MaxRerunDelta domains
\* with a failed call
MaxRerunDelta == 2

(***************************************************************************)
(* Program constants.                                                      *)
(***************************************************************************)
DEBUG_DOMAIN_LIMIT == 20

\* exit_code while the process has not exited
Running == <<>>
\* response when no source has answered
NoResponse == <<"<none>">>

(***************************************************************************)
(* Characters and strings.                                                 *)
(***************************************************************************)
\* what str.strip() and str.split() treat as whitespace
Whitespace == {" ", "\t", "\n"}
\* what str.splitlines() treats as a line boundary
LineBreaks == {"\n"}

\* ord(c) for the characters the model uses: sorted() compares by code point
CodePoint(c) ==
    CASE c = "\t" -> 9   [] c = "\n" -> 10  [] c = " " -> 32  [] c = "#" -> 35
      [] c = "." -> 46   [] c = "0" -> 48   [] c = "1" -> 49  [] c = "2" -> 50
      [] c = "3" -> 51   [] c = "4" -> 52   [] c = "5" -> 53  [] c = "6" -> 54
      [] c = "7" -> 55   [] c = "8" -> 56   [] c = "9" -> 57  [] c = "a" -> 97
      [] c = "b" -> 98   [] c = "c" -> 99   [] c = "h" -> 104 [] c = "m" -> 109
      [] c = "o" -> 111

\* s < t for Python strings
RECURSIVE StrLess(_, _)
StrLess(s, t) ==
    IF t = <<>> THEN FALSE
    ELSE IF s = <<>> THEN TRUE
    ELSE IF Head(s) = Head(t) THEN StrLess(Tail(s), Tail(t))
    ELSE CodePoint(Head(s)) < CodePoint(Head(t))

\* the literals of line 51
NullRoute0 == <<"0", ".", "0", ".", "0", ".", "0">>
NullRoute127 == <<"1", "2", "7", ".", "0", ".", "0", ".", "1">>

\* str.lstrip(), str.rstrip(), str.strip()
RECURSIVE LStrip(_)
LStrip(s) ==
    IF s = <<>> THEN <<>>
    ELSE IF Head(s) \in Whitespace THEN LStrip(Tail(s))
    ELSE s

RECURSIVE RStrip(_)
RStrip(s) ==
    IF s = <<>> THEN <<>>
    ELSE IF s[Len(s)] \in Whitespace THEN RStrip(SubSeq(s, 1, Len(s) - 1))
    ELSE s

Strip(s) == RStrip(LStrip(s))

\* s.split("#")[0]
RECURSIVE BeforeHash(_)
BeforeHash(s) ==
    IF s = <<>> THEN <<>>
    ELSE IF Head(s) = "#" THEN <<>>
    ELSE <<Head(s)>> \o BeforeHash(Tail(s))

\* s.split(): the maximal runs of non-whitespace characters, in order;
\* word is the run being read
RECURSIVE SplitFrom(_, _)
SplitFrom(s, word) ==
    IF s = <<>> THEN (IF word = <<>> THEN <<>> ELSE <<word>>)
    ELSE IF Head(s) \in Whitespace
         THEN (IF word = <<>> THEN <<>> ELSE <<word>>) \o SplitFrom(Tail(s), <<>>)
         ELSE SplitFrom(Tail(s), Append(word, Head(s)))

Split(s) == SplitFrom(s, <<>>)

\* s.splitlines(): a trailing line break opens no further line
RECURSIVE SplitLinesFrom(_, _)
SplitLinesFrom(s, line) ==
    IF s = <<>> THEN (IF line = <<>> THEN <<>> ELSE <<line>>)
    ELSE IF Head(s) \in LineBreaks
         THEN <<line>> \o SplitLinesFrom(Tail(s), <<>>)
         ELSE SplitLinesFrom(Tail(s), Append(line, Head(s)))

SplitLines(s) == SplitLinesFrom(s, <<>>)

(***************************************************************************)
(* Source Parser: the body of the loop over response.text.splitlines().    *)
(***************************************************************************)
\* mutant: parts[0] instead of parts[-1]
ParseLine_FirstToken(raw) ==
    LET line == Strip(BeforeHash(Strip(raw)))
    IN  IF line # <<>>
        THEN LET parts == Split(line)
                 domain == parts[1]
             IN  IF domain # NullRoute0 /\ domain # NullRoute127
                 THEN {domain}
                 ELSE {}
        ELSE {}

\* lines 47-52 for one line: the set of domains the line adds
ParseLine(raw) ==
    LET line == Strip(BeforeHash(Strip(raw)))
    IN  IF line # <<>>
        THEN LET parts == Split(line)
                 domain == parts[Len(parts)]
             IN  IF domain # NullRoute0 /\ domain # NullRoute127
                 THEN {domain}
                 ELSE {}
        ELSE {}

\* lines 46-52: the loop over the lines, adding to acc
RECURSIVE ParseLines(_, _)
ParseLines(lines, acc) ==
    IF lines = <<>> THEN acc
    ELSE ParseLines(Tail(lines), acc \cup ParseLine(Head(lines)))

ParseText(text, acc) == ParseLines(SplitLines(text), acc)

(***************************************************************************)
(* Debug limit: set(sorted(list(all_desired_domains))[:DEBUG_DOMAIN_LIMIT]) *)
(***************************************************************************)
MinStr(S) == CHOOSE m \in S : \A e \in S \ {m} : StrLess(m, e)

RECURSIVE Sorted(_)
Sorted(S) ==
    IF S = {} THEN <<>>
    ELSE LET m == MinStr(S) IN <<m>> \o Sorted(S \ {m})

\* seq[:n]
Slice(seq, n) == SubSeq(seq, 1, IF Len(seq) < n THEN Len(seq) ELSE n)

ToSet(seq) == {seq[i] : i \in 1..Len(seq)}

\* lines 112-121
LimitDesired(all_desired_domains) ==
    IF Cardinality(all_desired_domains) > DEBUG_DOMAIN_LIMIT
    THEN ToSet(Slice(Sorted(all_desired_domains), DEBUG_DOMAIN_LIMIT))
    ELSE all_desired_domains

(***************************************************************************)
(* Inputs: source bodies and initial denylists.                            *)
(***************************************************************************)
A_com == <<"a", ".", "c", "o", "m">>
B_com == <<"b", ".", "c", "o", "m">>
C_com == <<"c", ".", "c", "o", "m">>

SP == <<" ">>
NL == <<"\n">>
HASH == <<"#">>

\* the long list: h01, h02, ... one per line
Digit == <<"0", "1", "2", "3", "4", "5", "6", "7", "8", "9">>
BigDomain(i) == <<"h", Digit[(i \div 10) + 1], Digit[(i % 10) + 1]>>
BigList == {BigDomain(i) : i \in 1..BigCount}

RECURSIVE BigTextFrom(_)
BigTextFrom(i) ==
    IF i > BigCount THEN <<>>
    ELSE BigDomain(i) \o NL \o BigTextFrom(i + 1)

BigText == BigTextFrom(1)

\* "0.0.0.0 a.com"
HostsText == NullRoute0 \o SP \o A_com
\* "a.com\n# c\n127.0.0.1 b.com # c\n"
MixedText == A_com \o NL \o HASH \o SP \o C_com \o NL
               \o NullRoute127 \o SP \o B_com \o SP \o HASH \o SP \o C_com \o NL
\* "b.com"
PlainText == B_com
\* "# a.com\n\n0.0.0.0\n": a body without any domain
BlankText == HASH \o SP \o A_com \o NL \o NL \o NullRoute0 \o NL

\* the bodies a source of the run may answer with
SourceTexts == {HostsText, MixedText, PlainText, BlankText, BigText}

\* the denylists the service may hold when the run starts
RemoteSamples == (SUBSET {A_com, B_com, C_com}) \cup {BigList}

\* every body made of at most n pieces, for the parser on its own
Pieces == {SP, HASH, NL, NullRoute0, NullRoute127, A_com, B_com}

RECURSIVE TextsOf(_)
TextsOf(n) ==
    IF n = 0 THEN {<<>>}
    ELSE LET shorter == TextsOf(n - 1)
         IN  shorter \cup {t \o p : t \in shorter, p \in Pieces}

(***************************************************************************)
(* The requests issued, as the service sees them.                          *)
(***************************************************************************)
\* a request that got no usable answer: raise_for_status() raises on a 4xx/5xx
\* status, or the transport raises (connection error, timeout); either way
\* the code sees a requests.exceptions.RequestException
Failures == {"http_error", "transport_error"}

\* the statuses below 400 an add or remove may be answered with: 204 No
\* Content, or another one such as 200 ("ok"); raise_for_status() passes both
SuccessStatuses == {"no_content", "ok"}

\* mutant: only 204 is reported as done (if response.status_code != 204: error)
Report_NoContentOnly(op, result) ==
    CASE op = "add" /\ result = "conflict" -> "skipped"
      [] op = "remove" /\ result = "not_found" -> "skipped"
      [] op \in {"add", "remove"} /\ result = "no_content" -> "done"
      [] op \in {"add", "remove"} -> "error"
      [] op = "fetch" /\ result \in Failures -> "warning"
      [] op = "read" /\ result \in Failures -> "fatal"
      [] OTHER -> "none"

\* what the code prints about a request: "skipped" (lines 71, 92), "error"
\* (lines 76, 97), "done" (lines 74, 95), "warning" (line 54), "fatal" (line 30)
Report(op, result) ==
    CASE op = "add" /\ result = "conflict" -> "skipped"
      [] op = "remove" /\ result = "not_found" -> "skipped"
      [] op \in {"add", "remove"} /\ result \in Failures -> "error"
      [] op \in {"add", "remove"} -> "done"
      [] op = "fetch" /\ result \in Failures -> "warning"
      [] op = "read" /\ result \in Failures -> "fatal"
      [] OTHER -> "none"

\* whether the service has applied a request with this result: it has when it
\* answers below 400, it has not when it answers 409, 404 or an error status,
\* and either is possible when the transport raises (the answer may be lost)
Applied(result) ==
    IF result \in SuccessStatuses THEN {TRUE}
    ELSE IF result = "transport_error" THEN BOOLEAN
    ELSE {FALSE}

\* chunk: the domains one mutation request carries (payload of line 67, URL of line 88)
Call(op, url, chunk, result, slept) ==
    [op |-> op, url |-> url, payload |-> chunk, result |-> result, slept |-> slept,
     report |-> Report(op, result)]

\* the registry read at lines 39-40, as indices of its URLs
blocklist_urls == 1..NumSources

Terminal == {"ConfigError", "AbortedEmptyDesired", "AbortedReadFailure",
             "UpToDate", "Completed"}

\* what one source answered: its body, or the failure of the request
Answered(result, text) == [result |-> result, text |-> text]

\* what a finished run leaves for the next one to be compared with; the
\* program itself keeps nothing from one run to the next
NoRun ==
    [ran |-> FALSE, served |-> <<>>, all_ok |-> TRUE,
     failed_add |-> {}, failed_remove |-> {},
     rejected_add |-> {}, rejected_remove |-> {}]

\* between a run and the next one started after it the sources do not change:
\* each answers the second run as it answered the first
SameAsBefore(answer) ==
    prev.ran => url_idx <= Len(prev.served) /\ prev.served[url_idx] = answer

(***************************************************************************)
(* Initial state: the environment and the denylist before the run.         *)
(***************************************************************************)
Init ==
    /\ pc = "start"
    /\ api_key \in BOOLEAN
    /\ profile_id \in BOOLEAN
    /\ url_idx = 1
    /\ response = NoResponse
    /\ domains = {}
    /\ desired_domains = {}
    /\ current_domains = {}
    /\ domains_to_add = {}
    /\ domains_to_remove = {}
    /\ pending = {}
    /\ remote \in RemoteSamples
    /\ ext_writes = 0
    /\ calls = <<>>
    /\ exit_code = Running
    /\ ok_status \in SuccessStatuses
    /\ served = <<>>
    /\ prev = NoRun

(***************************************************************************)
(* __main__, lines 103-107.                                                *)
(***************************************************************************)
\* mutant: only the API key is required
CheckConfig_KeyOnly ==
    /\ pc = "start"
    /\ IF ~api_key
       THEN /\ pc' = "ConfigError"
            /\ exit_code' = <<1>>
       ELSE /\ pc' = "collect"
            /\ exit_code' = exit_code
    /\ UNCHANGED <<api_key, profile_id, url_idx, response, domains, desired_domains,
                   current_domains, domains_to_add, domains_to_remove, pending,
                   remote, ext_writes, calls, ok_status, served, prev>>

CheckConfig ==
    /\ pc = "start"
    /\ IF ~api_key \/ ~profile_id
       THEN /\ pc' = "ConfigError"          \* ValueError, uncaught
            /\ exit_code' = <<1>>
       ELSE /\ pc' = "collect"
            /\ exit_code' = exit_code
    /\ UNCHANGED <<api_key, profile_id, url_idx, response, domains, desired_domains,
                   current_domains, domains_to_add, domains_to_remove, pending,
                   remote, ext_writes, calls, ok_status, served, prev>>

(***************************************************************************)
(* get_remote_blocklist_domains, lines 42-54.                              *)
(***************************************************************************)
\* lines 44-45 answered with a body
FetchSourceOk ==
    /\ pc = "collect"
    /\ url_idx \in blocklist_urls
    /\ \E text \in SourceTexts :
          /\ SameAsBefore(Answered("ok", text))
          /\ response' = text
          /\ served' = Append(served, Answered("ok", text))
    /\ pc' = "parse"
    /\ calls' = Append(calls, Call("fetch", url_idx, {}, "ok", FALSE))
    /\ UNCHANGED <<api_key, profile_id, url_idx, domains, desired_domains,
                   current_domains, domains_to_add, domains_to_remove, pending,
                   remote, ext_writes, exit_code, ok_status, prev>>

\* mutant: the try/except encloses the loop, so the first failed source ends it
FetchSourceFail_EndsLoop ==
    /\ pc = "collect"
    /\ url_idx \in blocklist_urls
    /\ \E failure \in Failures :
          /\ SameAsBefore(Answered(failure, NoResponse))
          /\ calls' = Append(calls, Call("fetch", url_idx, {}, failure, FALSE))
          /\ served' = Append(served, Answered(failure, NoResponse))
    /\ url_idx' = NumSources + 1
    /\ UNCHANGED <<pc, api_key, profile_id, response, domains, desired_domains,
                   current_domains, domains_to_add, domains_to_remove, pending,
                   remote, ext_writes, exit_code, ok_status, prev>>

\* lines 44-45 raise, lines 53-54 print the warning; the loop goes on
FetchSourceFail ==
    /\ pc = "collect"
    /\ url_idx \in blocklist_urls
    /\ \E failure \in Failures :
          /\ SameAsBefore(Answered(failure, NoResponse))
          /\ calls' = Append(calls, Call("fetch", url_idx, {}, failure, FALSE))
          /\ served' = Append(served, Answered(failure, NoResponse))
    /\ url_idx' = url_idx + 1
    /\ UNCHANGED <<pc, api_key, profile_id, response, domains, desired_domains,
                   current_domains, domains_to_add, domains_to_remove, pending,
                   remote, ext_writes, exit_code, ok_status, prev>>

\* lines 46-52: the loop over the lines of the body
ParseSource ==
    /\ pc = "parse"
    /\ domains' = ParseText(response, domains)
    /\ url_idx' = url_idx + 1
    /\ pc' = "collect"
    /\ UNCHANGED <<api_key, profile_id, response, desired_domains, current_domains,
                   domains_to_add, domains_to_remove, pending, remote, ext_writes,
                   calls, exit_code, ok_status, served, prev>>

(***************************************************************************)
(* __main__, lines 109-126: return of the collection, debug limit, guard.  *)
(***************************************************************************)
\* mutant: the guard of lines 124-126 is missing
FinishCollect_NoEmptyGuard ==
    /\ pc = "collect"
    /\ url_idx \notin blocklist_urls
    /\ desired_domains' = LimitDesired(domains)
    /\ response' = NoResponse
    /\ pc' = "read"
    /\ exit_code' = exit_code
    /\ UNCHANGED <<api_key, profile_id, url_idx, domains, current_domains,
                   domains_to_add, domains_to_remove, pending, remote, ext_writes,
                   calls, ok_status, served, prev>>

FinishCollect ==
    /\ pc = "collect"
    /\ url_idx \notin blocklist_urls
    /\ desired_domains' = LimitDesired(domains)
    /\ response' = NoResponse              \* a local of the function that returned
    /\ IF desired_domains' = {}
       THEN /\ pc' = "AbortedEmptyDesired"  \* exit(1), line 126
            /\ exit_code' = <<1>>
       ELSE /\ pc' = "read"
            /\ exit_code' = exit_code
    /\ UNCHANGED <<api_key, profile_id, url_idx, domains, current_domains,
                   domains_to_add, domains_to_remove, pending, remote, ext_writes,
                   calls, ok_status, served, prev>>

(***************************************************************************)
(* get_current_denylist and __main__, lines 128-138.                       *)
(***************************************************************************)
\* mutant: the additions are not reduced by what the denylist already holds
ToAdd_NoDifference(desired, current) == desired

\* mutant: the operands of the removal difference are exchanged
ToRemove_Exchanged(desired, current) == desired \ current

\* mutant: everything the denylist holds is removed
ToRemove_All(desired, current) == current

\* line 130
ToAdd(desired, current) == desired \ current
\* line 131
ToRemove(desired, current) == current \ desired

\* mutant: the no-op check of line 133 is missing, the appliers always run
ReadCurrentOk_NoNoopCheck ==
    /\ pc = "read"
    /\ Cardinality(ToAdd(desired_domains, remote))
         + Cardinality(ToRemove(desired_domains, remote)) <= MaxDelta
    /\ current_domains' = remote
    /\ domains_to_add' = ToAdd(desired_domains, current_domains')
    /\ domains_to_remove' = ToRemove(desired_domains, current_domains')
    /\ calls' = Append(calls, Call("read", 0, {}, "ok", FALSE))
    /\ pc' = "adds"
    /\ pending' = domains_to_add'
    /\ UNCHANGED <<api_key, profile_id, url_idx, response, domains, desired_domains,
                   remote, ext_writes, exit_code, ok_status, served, prev>>

\* lines 24-28 answered; lines 130-136: the delta and the no-op check
ReadCurrentOk ==
    /\ pc = "read"
    /\ Cardinality(ToAdd(desired_domains, remote))
         + Cardinality(ToRemove(desired_domains, remote)) <= MaxDelta
    /\ current_domains' = remote
    /\ domains_to_add' = ToAdd(desired_domains, current_domains')
    /\ domains_to_remove' = ToRemove(desired_domains, current_domains')
    /\ calls' = Append(calls, Call("read", 0, {}, "ok", FALSE))
    /\ IF domains_to_add' = {} /\ domains_to_remove' = {}
       THEN /\ pc' = "UpToDate"
            /\ exit_code' = <<0>>
            /\ pending' = pending
       ELSE /\ pc' = "adds"
            /\ exit_code' = exit_code
            /\ pending' = domains_to_add'
    /\ UNCHANGED <<api_key, profile_id, url_idx, response, domains, desired_domains,
                   remote, ext_writes, ok_status, served, prev>>

\* mutant: a failed read is taken for an empty denylist instead of exit(1)
ReadCurrentFail_EmptyBaseline ==
    /\ pc = "read"
    /\ \E failure \in Failures :
          calls' = Append(calls, Call("read", 0, {}, failure, FALSE))
    /\ current_domains' = {}
    /\ domains_to_add' = desired_domains
    /\ domains_to_remove' = {}
    /\ pending' = desired_domains
    /\ pc' = "adds"
    /\ UNCHANGED <<api_key, profile_id, url_idx, response, domains, desired_domains,
                   remote, ext_writes, exit_code, ok_status, served, prev>>

\* lines 24-25 raise, lines 29-31: FATAL, exit(1)
ReadCurrentFail ==
    /\ pc = "read"
    /\ \E failure \in Failures :
          calls' = Append(calls, Call("read", 0, {}, failure, FALSE))
    /\ pc' = "AbortedReadFailure"
    /\ exit_code' = <<1>>
    /\ UNCHANGED <<api_key, profile_id, url_idx, response, domains, desired_domains,
                   current_domains, domains_to_add, domains_to_remove, pending,
                   remote, ext_writes, ok_status, served, prev>>

\* the requests given a timeout= argument: 30 s at line 44, 15 s at lines 69
\* and 90; the GET of line 24 has none, and requests then waits without limit
HasTimeout(op) == op \in {"fetch", "add", "remove"}

\* line 24 is never answered: the call does not return. (A request with a
\* timeout that is never answered raises, which is a "transport_error".)
ReadCurrentHang ==
    /\ pc = "read"
    /\ ~ HasTimeout("read")
    /\ calls' = Append(calls, Call("read", 0, {}, "no_answer", FALSE))
    /\ pc' = "read_blocked"
    /\ UNCHANGED <<api_key, profile_id, url_idx, response, domains, desired_domains,
                   current_domains, domains_to_add, domains_to_remove, pending,
                   remote, ext_writes, exit_code, ok_status, served, prev>>

(***************************************************************************)
(* add_domains_one_by_one, lines 60-78.                                    *)
(***************************************************************************)
\* what the service answers to POST {"id": domain} when it answers
AddAnswer(domain) == IF domain \in remote THEN "conflict" ELSE ok_status

\* mutant: the first failed POST ends the loop (no try/except around it)
AddOne_StopOnFailure ==
    /\ pc = "adds"
    /\ \E domain \in pending :
          \E result \in {AddAnswer(domain)} \cup Failures :
          \E applied \in Applied(result) :
             /\ pending' = IF result \in Failures THEN {} ELSE pending \ {domain}
             /\ remote' = IF applied THEN remote \cup {domain} ELSE remote
             /\ calls' = Append(calls,
                           Call("add", 0, {domain}, result, result # "conflict"))
    /\ UNCHANGED <<pc, api_key, profile_id, url_idx, response, domains,
                   desired_domains, current_domains, domains_to_add,
                   domains_to_remove, ext_writes, exit_code, ok_status, served, prev>>

\* one iteration of the loop of line 66; the set is iterated in no fixed order
AddOne ==
    /\ pc = "adds"
    /\ \E domain \in pending :
          \E result \in {AddAnswer(domain)} \cup Failures :
          \E applied \in Applied(result) :
             /\ pending' = pending \ {domain}
             /\ remote' = IF applied THEN remote \cup {domain} ELSE remote
             \* line 72: continue on 409 skips the sleep of line 78
             /\ calls' = Append(calls,
                           Call("add", 0, {domain}, result, result # "conflict"))
    /\ UNCHANGED <<pc, api_key, profile_id, url_idx, response, domains,
                   desired_domains, current_domains, domains_to_add,
                   domains_to_remove, ext_writes, exit_code, ok_status, served, prev>>

\* mutant: the baseline is fetched again between the adds and the removes
AddsDone_RereadsBaseline ==
    /\ pc = "adds"
    /\ pending = {}
    /\ pc' = "removes"
    /\ pending' = domains_to_remove
    /\ calls' = Append(calls, Call("read", 0, {}, "ok", FALSE))
    /\ UNCHANGED <<api_key, profile_id, url_idx, response, domains, desired_domains,
                   current_domains, domains_to_add, domains_to_remove, remote,
                   ext_writes, exit_code, ok_status, served, prev>>

\* the loop is over (or line 63 returned): line 137 calls the remover
AddsDone ==
    /\ pc = "adds"
    /\ pending = {}
    /\ pc' = "removes"
    /\ pending' = domains_to_remove
    /\ UNCHANGED <<api_key, profile_id, url_idx, response, domains, desired_domains,
                   current_domains, domains_to_add, domains_to_remove, remote,
                   ext_writes, calls, exit_code, ok_status, served, prev>>

(***************************************************************************)
(* remove_domains_one_by_one, lines 81-99.                                 *)
(***************************************************************************)
\* what the service answers to DELETE .../denylist/<domain> when it answers
RemoveAnswer(domain) == IF domain \in remote THEN ok_status ELSE "not_found"

\* mutant: a failed DELETE is retried, the domain stays in the loop
RemoveOne_RetryOnFailure ==
    /\ pc = "removes"
    /\ \E domain \in pending :
          \E result \in {RemoveAnswer(domain)} \cup Failures :
          \E applied \in Applied(result) :
             /\ pending' = IF result \in Failures THEN pending ELSE pending \ {domain}
             /\ remote' = IF applied THEN remote \ {domain} ELSE remote
             /\ calls' = Append(calls,
                           Call("remove", 0, {domain}, result, result # "not_found"))
             /\ Len(calls) < NumSources + 1 + 2 * MaxDelta
    /\ UNCHANGED <<pc, api_key, profile_id, url_idx, response, domains,
                   desired_domains, current_domains, domains_to_add,
                   domains_to_remove, ext_writes, exit_code, ok_status, served, prev>>

\* one iteration of the loop of line 87
RemoveOne ==
    /\ pc = "removes"
    /\ \E domain \in pending :
          \E result \in {RemoveAnswer(domain)} \cup Failures :
          \E applied \in Applied(result) :
             /\ pending' = pending \ {domain}
             /\ remote' = IF applied THEN remote \ {domain} ELSE remote
             \* line 93: continue on 404 skips the sleep of line 99
             /\ calls' = Append(calls,
                           Call("remove", 0, {domain}, result, result # "not_found"))
    /\ UNCHANGED <<pc, api_key, profile_id, url_idx, response, domains,
                   desired_domains, current_domains, domains_to_add,
                   domains_to_remove, ext_writes, exit_code, ok_status, served, prev>>

\* the loop is over (or line 84 returned): line 138, the script ends
RemovesDone ==
    /\ pc = "removes"
    /\ pending = {}
    /\ pc' = "Completed"
    /\ exit_code' = <<0>>
    /\ UNCHANGED <<api_key, profile_id, url_idx, response, domains, desired_domains,
                   current_domains, domains_to_add, domains_to_remove, pending,
                   remote, ext_writes, calls, ok_status, served, prev>>

(***************************************************************************)
(* Another client of the service: the script takes no lock on the          *)
(* denylist. A write before the baseline read is an initial denylist; a    *)
(* write the run can observe is one to a domain it has yet to submit.      *)
(***************************************************************************)
ExternalWrite ==
    /\ pc \in {"adds", "removes"}
    /\ ext_writes < MaxExtWrites
    /\ ~ prev.ran                    \* a second run is followed without other writer
    /\ \E domain \in pending :
          remote' = IF domain \in remote THEN remote \ {domain}
                    ELSE remote \cup {domain}
    /\ ext_writes' = ext_writes + 1
    /\ UNCHANGED <<pc, api_key, profile_id, url_idx, response, domains,
                   desired_domains, current_domains, domains_to_add,
                   domains_to_remove, pending, calls, exit_code, ok_status, served,
                   prev>>

Next ==
    \/ CheckConfig
    \/ FetchSourceOk
    \/ FetchSourceFail
    \/ ParseSource
    \/ FinishCollect
    \/ ReadCurrentOk
    \/ ReadCurrentFail
    \/ ReadCurrentHang
    \/ AddOne
    \/ AddsDone
    \/ RemoveOne
    \/ RemovesDone
    \/ ExternalWrite

Spec == Init /\ [][Next]_vars

(***************************************************************************)
(* The script started a second time, lines 102-138 again.  It keeps nothing *)
(* from the run before: every variable of the process starts afresh, the    *)
(* configuration and the service are the same.                              *)
(***************************************************************************)
\* the domains carried by the requests of kind op that ended with one of results
DomainsWith(op, results) ==
    UNION {calls[i].payload :
              i \in {k \in 1..Len(calls) :
                        calls[k].op = op /\ calls[k].result \in results}}

StartRerun ==
    /\ pc \in {"Completed", "UpToDate"}
    /\ ~ prev.ran
    /\ ext_writes = 0                \* the re-run of a run that was the only writer
    /\ Cardinality(DomainsWith("add", Failures) \cup DomainsWith("remove", Failures))
          <= MaxRerunDelta
    /\ prev' = [ran |-> TRUE,
                served |-> served,
                all_ok |-> \A i \in 1..Len(calls) :
                              calls[i].op \in {"add", "remove"}
                                  => calls[i].result \in SuccessStatuses,
                failed_add |-> DomainsWith("add", Failures),
                failed_remove |-> DomainsWith("remove", Failures),
                rejected_add |-> DomainsWith("add", {"http_error"}),
                rejected_remove |-> DomainsWith("remove", {"http_error"})]
    /\ pc' = "start"
    /\ url_idx' = 1
    /\ response' = NoResponse
    /\ domains' = {}
    /\ desired_domains' = {}
    /\ current_domains' = {}
    /\ domains_to_add' = {}
    /\ domains_to_remove' = {}
    /\ pending' = {}
    /\ calls' = <<>>
    /\ exit_code' = Running
    /\ served' = <<>>
    /\ UNCHANGED <<api_key, profile_id, remote, ext_writes, ok_status>>

RerunNext == Next \/ StartRerun

\* the two runs are followed against a service that answers an applied write
\* with no-content
RerunInit == Init /\ ok_status = "no_content"

RerunSpec == RerunInit /\ [][RerunNext]_vars

(***************************************************************************)
(* The parser on its own: the run right after a source answered with any   *)
(* body of at most MaxPieces pieces, and the parse of that body.           *)
(***************************************************************************)
ParseInit ==
    /\ pc = "parse"
    /\ api_key = TRUE
    /\ profile_id = TRUE
    /\ url_idx = 1
    /\ response \in TextsOf(MaxPieces)
    /\ domains = {}
    /\ desired_domains = {}
    /\ current_domains = {}
    /\ domains_to_add = {}
    /\ domains_to_remove = {}
    /\ pending = {}
    /\ remote = {}
    /\ ext_writes = 0
    /\ calls = <<Call("fetch", 1, {}, "ok", FALSE)>>
    /\ exit_code = Running
    /\ ok_status = "no_content"
    /\ served = <<Answered("ok", response)>>
    /\ prev = NoRun

ParseSpec == ParseInit /\ [][ParseSource]_vars

(***************************************************************************)
(* Properties.                                                             *)
(***************************************************************************)
\* the add and remove requests issued so far, in order
MutationCalls == SelectSeq(calls, LAMBDA c : c.op \in {"add", "remove"})
CallsOf(op) == SelectSeq(calls, LAMBDA c : c.op = op)
\* the domains the requests of kind op carried
Submitted(op) == UNION {CallsOf(op)[i].payload : i \in 1..Len(CallsOf(op))}
FailedCalls(op) == SelectSeq(calls, LAMBDA c : c.op = op /\ c.result \in Failures)
\* the collection of the desired set is over
Collected == pc \notin {"start", "ConfigError", "collect", "parse"}
NonZeroExit == exit_code # Running /\ exit_code # <<0>>

\* C1: when the desired set is empty once all sources are collected, the run is
\* in AbortedEmptyDesired with a non-zero exit code, the baseline was not read
\* and no add or remove request was issued.
C1_EmptyDesiredAborts ==
    (Collected /\ desired_domains = {})
        => /\ pc = "AbortedEmptyDesired"
           /\ NonZeroExit
           /\ MutationCalls = <<>>
           /\ CallsOf("read") = <<>>
           /\ ~ ENABLED Next

\* every source fetch of the run failed and the run aborted on the empty set
C1_Witness ==
    /\ pc = "AbortedEmptyDesired"
    /\ Len(calls) = NumSources
    /\ \A i \in 1..Len(calls) : calls[i].op = "fetch" /\ calls[i].result \in Failures

\* C2: when the read of the current denylist failed, the run is in
\* AbortedReadFailure with a non-zero exit code, no add or remove request was
\* issued and no delta was computed.
C2_ReadFailureAborts ==
    (FailedCalls("read") # <<>>)
        => /\ pc = "AbortedReadFailure"
           /\ NonZeroExit
           /\ MutationCalls = <<>>
           /\ current_domains = {}
           /\ domains_to_add = {}
           /\ domains_to_remove = {}
           /\ pending = {}
           /\ ~ ENABLED Next

\* the baseline read timed out with a non-empty desired set that differs from
\* the denylist
C2_Witness ==
    /\ pc = "AbortedReadFailure"
    /\ calls[Len(calls)].op = "read"
    /\ calls[Len(calls)].result = "transport_error"
    /\ desired_domains # {}
    /\ desired_domains # remote

\* C3: failures of add or remove requests neither stop the appliers nor change
\* the outcome: while applying, a step is always possible; a run that applied a
\* non-empty delta and ended, ended in Completed with exit code 0, and every
\* domain of ToAdd and of ToRemove was submitted.
C3_PartialFailureIsolation ==
    /\ (pc \in {"adds", "removes"}) =>
           ENABLED (AddOne \/ AddsDone \/ RemoveOne \/ RemovesDone)
    /\ (MutationCalls # <<>>) =>
           /\ pc \in {"adds", "removes", "Completed"}
           /\ exit_code \in {Running, <<0>>}
    /\ (pc = "removes") => Submitted("add") = domains_to_add
    /\ (pc = "Completed") =>
           /\ exit_code = <<0>>
           /\ Submitted("add") = domains_to_add
           /\ Submitted("remove") = domains_to_remove

\* the first of three requests failed, the other two were still issued, and
\* the run completed
C3_Witness ==
    /\ pc = "Completed"
    /\ Len(MutationCalls) = 3
    /\ MutationCalls[1].result \in Failures
    /\ MutationCalls[1].op = "add"
    /\ MutationCalls[3].op = "remove"

\* C4: once the delta is computed, ToAdd is exactly desired minus current and
\* ToRemove exactly current minus desired; they are disjoint; what the add
\* applier is handed (submitted or still pending) is ToAdd and what the remove
\* applier is handed is ToRemove; equal sets give an empty delta, an empty
\* current set gives (desired, empty), and {a.com, b.com} against
\* {b.com, c.com} gives ({a.com}, {c.com}).
C4_DeltaIsSetDifference ==
    (pc \in {"adds", "removes", "Completed", "UpToDate"}) =>
        /\ domains_to_add = {d \in desired_domains : d \notin current_domains}
        /\ domains_to_remove = {d \in current_domains : d \notin desired_domains}
        /\ domains_to_add \cap domains_to_remove = {}
        /\ (pc = "adds") => Submitted("add") \cup pending = domains_to_add
        /\ (pc = "removes") => Submitted("remove") \cup pending = domains_to_remove
        /\ (desired_domains = current_domains) =>
               domains_to_add = {} /\ domains_to_remove = {}
        /\ (current_domains = {}) =>
               domains_to_add = desired_domains /\ domains_to_remove = {}
        /\ (desired_domains = {A_com, B_com} /\ current_domains = {B_com, C_com}) =>
               domains_to_add = {A_com} /\ domains_to_remove = {C_com}

\* the scenario {a.com, b.com} against {b.com, c.com}, handed to the add applier
C4_Witness ==
    /\ pc = "adds"
    /\ desired_domains = {A_com, B_com}
    /\ current_domains = {B_com, C_com}
    /\ pending = {A_com}

\* C5 (as claimed): once collected, the desired set the driver diffs is the
\* set of all domains the parser accepted from the sources that answered.
C5_DesiredIsUnionOfAccepted ==
    Collected => desired_domains = domains

\* C6: when the delta computed from a successful baseline read is empty, the
\* run is in UpToDate with exit code 0 and no add or remove request was issued.
C6_EmptyDeltaIsUpToDate ==
    /\ ((\E i \in 1..Len(calls) : calls[i].op = "read" /\ calls[i].result = "ok")
          /\ domains_to_add = {} /\ domains_to_remove = {})
        => /\ pc = "UpToDate"
           /\ exit_code = <<0>>
           /\ MutationCalls = <<>>
           /\ ~ ENABLED Next
    /\ (pc = "UpToDate") => domains_to_add = {} /\ domains_to_remove = {}

\* the denylist already holds exactly the non-empty desired set
C6_Witness ==
    /\ pc = "UpToDate"
    /\ desired_domains = {A_com, B_com}
    /\ current_domains = desired_domains

\* the fetch requests of the run so far
FetchCalls == CallsOf("fetch")

\* C7: a step in which a source fetch fails leaves the collected domains as
\* they are, keeps the run in the collection and moves on to the next source;
\* and whatever fails, the sources fetched so far are the first url_idx - 1 of
\* the registry, each once and in order, so that every source has been fetched
\* when the collection is over.
C7_FailedSourceIsSkipped ==
    /\ []( /\ (pc = "collect") => Len(FetchCalls) = url_idx - 1
           /\ \A i \in 1..Len(FetchCalls) : FetchCalls[i].url = i
           /\ Collected => Len(FetchCalls) = NumSources )
    /\ [][ (Len(calls') = Len(calls) + 1 /\ calls'[Len(calls')].op = "fetch"
              /\ calls'[Len(calls')].result \in Failures)
           => /\ domains' = domains
              /\ pc' = "collect"
              /\ url_idx' = url_idx + 1
              /\ exit_code' = Running ]_vars

\* the first source failed, the second was still fetched and parsed, and its
\* domains are the desired set
C7_Witness ==
    /\ pc = "read"
    /\ FetchCalls[1].result \in Failures
    /\ FetchCalls[NumSources].result = "ok"
    /\ desired_domains = {A_com, B_com}

\* C8: with the API key or the profile id missing, no request of any kind is
\* ever issued, and the run ends with a non-zero exit code at its first step.
C8_MissingConfigIsFatal ==
    (~api_key \/ ~profile_id)
        => /\ calls = <<>>
           /\ pc \in {"start", "ConfigError"}
           /\ (pc = "start") => exit_code = Running /\ ENABLED CheckConfig
           /\ (pc = "ConfigError") => NonZeroExit /\ ~ ENABLED Next

\* the key is set, the profile id is not, and the run has ended
C8_Witness ==
    /\ pc = "ConfigError"
    /\ api_key
    /\ ~profile_id

\* the number of domains one add or remove request carries (lines 67 and 88)
ChunkSize == 1

\* ceil(n / ChunkSize)
ChunksFor(n) == (n + ChunkSize - 1) \div ChunkSize

\* no two requests of kind op carry the same domain, none carries more than
\* ChunkSize domains, and all carry domains of the set S
ExactlyOnce(op, S) ==
    LET cs == CallsOf(op)
    IN  /\ \A i \in 1..Len(cs) :
              Cardinality(cs[i].payload) <= ChunkSize /\ cs[i].payload \subseteq S
        /\ \A i, j \in 1..Len(cs) : i # j => cs[i].payload \cap cs[j].payload = {}

\* C9: at any time no domain has been submitted twice by an applier and no
\* request carries more than ChunkSize domains; when an applier has finished
\* with a set of N domains it has issued ceil(N / ChunkSize) requests that
\* together carry every domain of the set, whether or not requests failed.
C9_EachDomainSubmittedOnce ==
    /\ ExactlyOnce("add", domains_to_add)
    /\ ExactlyOnce("remove", domains_to_remove)
    /\ (pc \in {"removes", "Completed"}) =>
           /\ Len(CallsOf("add")) = ChunksFor(Cardinality(domains_to_add))
           /\ Submitted("add") = domains_to_add
    /\ (pc = "Completed") =>
           /\ Len(CallsOf("remove")) = ChunksFor(Cardinality(domains_to_remove))
           /\ Submitted("remove") = domains_to_remove

\* both appliers finished sets of two domains or more with a failed request each
C9_Witness ==
    /\ pc = "Completed"
    /\ Cardinality(domains_to_remove) >= 2
    /\ FailedCalls("add") # <<>>
    /\ FailedCalls("remove") # <<>>

(***************************************************************************)
(* The parser, stated without strip and split: the lines of a text are its *)
(* maximal stretches without a line break; the candidate of a line is the  *)
(* stretch of non-whitespace characters before the first '#' that is       *)
(* preceded by whitespace or nothing and followed by whitespace only.      *)
(***************************************************************************)
LinesOf(t) ==
    {SubSeq(t, i, j) : <<i, j>> \in
        {<<i, j>> \in (1..Len(t) + 1) \X (0..Len(t)) :
            /\ i <= j + 1
            /\ i = 1 \/ t[i - 1] \in LineBreaks
            /\ j = Len(t) \/ t[j + 1] \in LineBreaks
            /\ \A k \in i..j : t[k] \notin LineBreaks}}

CommentStart(l) ==
    IF \E k \in 1..Len(l) : l[k] = "#"
    THEN CHOOSE k \in 1..Len(l) : l[k] = "#" /\ \A m \in 1..(k - 1) : l[m] # "#"
    ELSE Len(l) + 1

CandidatesOf(l) ==
    {SubSeq(l, i, j) : <<i, j>> \in
        {<<i, j>> \in (1..Len(l)) \X (1..Len(l)) :
            /\ i <= j
            /\ j < CommentStart(l)
            /\ \A k \in i..j : l[k] \notin Whitespace
            /\ i = 1 \/ l[i - 1] \in Whitespace
            /\ \A k \in (j + 1)..(CommentStart(l) - 1) : l[k] \in Whitespace}}

AcceptedOf(t) ==
    UNION {CandidatesOf(l) : l \in LinesOf(t)} \ {NullRoute0, NullRoute127}

WellFormed(d) ==
    /\ d # <<>>
    /\ \A k \in 1..Len(d) : d[k] \notin Whitespace
    /\ d # NullRoute0
    /\ d # NullRoute127

\* C10: after a body was parsed into the empty set, the set holds exactly, for
\* each line, the last whitespace-separated token of what precedes the first
\* '#', unless that is empty, 0.0.0.0 or 127.0.0.1; no member is empty, holds
\* whitespace or is a null-route address; and parsing the body again into the
\* result changes nothing.
C10_LineParsing ==
    (pc = "collect" /\ response # NoResponse)
        => /\ domains = AcceptedOf(response)
           /\ \A d \in domains : WellFormed(d)
           /\ ParseText(response, domains) = domains
           /\ ParseText(response, {}) = domains

\* the hosts-file record "0.0.0.0 a.com" was parsed to a.com
C10_Witness ==
    /\ pc = "collect"
    /\ response = NullRoute0 \o SP \o A_com
    /\ domains = {A_com}

\* C11 (as claimed): an add or remove request is reported as done only when it
\* was answered 204 No Content, and as an error after every other answer and
\* every transport error.
C11_SuccessOnlyOnNoContent ==
    \A i \in 1..Len(MutationCalls) :
        /\ (MutationCalls[i].report = "done") => MutationCalls[i].result = "no_content"
        /\ (MutationCalls[i].result # "no_content") => MutationCalls[i].report = "error"

\* C11 (amended): an add or remove request is reported as an error exactly when
\* the transport raised or the status was an error status other than 409 for
\* an add and 404 for a remove; those two are reported as skipped; every
\* status below 400, 204 or not, is reported as done.
C11_FailureIsARaisedRequest ==
    \A i \in 1..Len(MutationCalls) :
        LET c == MutationCalls[i]
        IN  /\ (c.report = "error") <=> (c.result \in Failures)
            /\ (c.report = "skipped") <=>
                   \/ c.op = "add" /\ c.result = "conflict"
                   \/ c.op = "remove" /\ c.result = "not_found"
            /\ (c.report = "done") <=> (c.result \in SuccessStatuses)
            /\ c.report \in {"error", "skipped", "done"}

\* an add answered 200 was reported as done, a remove answered 404 was
\* reported as skipped and one request failed
C11_Witness ==
    /\ pc = "Completed"
    /\ \E i \in 1..Len(calls) :
          calls[i].op = "add" /\ calls[i].result = "ok" /\ calls[i].report = "done"
    /\ \E i \in 1..Len(calls) :
          calls[i].op = "remove" /\ calls[i].result = "not_found"
              /\ calls[i].report = "skipped"
    /\ \E i \in 1..Len(calls) :
          calls[i].result = "http_error" /\ calls[i].report = "error"

\* C12 (as claimed): within one applier, the code has slept between any two
\* consecutive requests, whatever the outcome of the earlier one.
C12_PauseBetweenSubmissions ==
    \A i \in 1..(Len(MutationCalls) - 1) :
        (MutationCalls[i].op = MutationCalls[i + 1].op) => MutationCalls[i].slept

\* the points where the next step is a computation on data already received
\* (the parse of lines 46-52, the limit and the guard of lines 112-126): it
\* waits for no one
LocalStep == pc = "parse" \/ (pc = "collect" /\ url_idx \notin blocklist_urls)

\* C13 (as claimed): every run reaches a terminal state, whatever the remote
\* service answers or fails to answer: a run is never left, before a terminal
\* state, at a point from which it cannot go on.
C13_EveryRunTerminates == pc \in Terminal \/ LocalStep \/ ENABLED Next

\* the place of a request in the order of __main__: the fetches of line 109,
\* the read of line 128, the adds of line 136, the removes of line 137
OpRank(op) ==
    CASE op = "fetch" -> 1
      [] op = "read" -> 2
      [] op = "add" -> 3
      [] op = "remove" -> 4

\* C14: in every run the requests are issued in the order fetches, baseline
\* read, adds, removes; every source is fetched before the baseline is read;
\* the baseline is read at most once, only when the desired set is not empty,
\* and exactly once in every run that went past a non-empty desired set.
C14_DriverOrdering ==
    /\ \A i, j \in 1..Len(calls) :
          i < j => OpRank(calls[i].op) <= OpRank(calls[j].op)
    /\ Len(CallsOf("read")) <= 1
    /\ CallsOf("read") # <<>>
          => desired_domains # {} /\ Len(FetchCalls) = NumSources
    /\ MutationCalls # <<>> => Len(CallsOf("read")) = 1
    /\ (pc \in Terminal /\ desired_domains # {}) => Len(CallsOf("read")) = 1
    /\ (pc \in Terminal /\ desired_domains = {}) => CallsOf("read") = <<>>

C14_Witness ==
    /\ pc = "Completed"
    /\ Len(FetchCalls) = NumSources
    /\ Len(CallsOf("read")) = 1
    /\ CallsOf("add") # <<>>
    /\ CallsOf("remove") # <<>>

\* every POST and DELETE of the run was answered with a success status
AllMutationsSucceeded ==
    \A i \in 1..Len(MutationCalls) : MutationCalls[i].result \in SuccessStatuses

\* C15: in a run that reaches Completed with every mutation call succeeding
\* and no other writer, the remote denylist at the end equals the desired set
\* the driver diffed against, which is (Current union ToAdd) minus ToRemove.
C15_Convergence ==
    (pc = "Completed" /\ ext_writes = 0 /\ AllMutationsSucceeded)
        => /\ remote = desired_domains
           /\ remote = (current_domains \cup domains_to_add) \ domains_to_remove

C15_Witness ==
    /\ pc = "Completed"
    /\ ext_writes = 0
    /\ AllMutationsSucceeded
    /\ CallsOf("add") # <<>>
    /\ CallsOf("remove") # <<>>
    /\ remote = desired_domains
    /\ current_domains # desired_domains

\* the entries the run has no reason to touch
Settled == desired_domains \cap current_domains

\* C16: add calls carry only domains of ToAdd, remove calls only domains of
\* ToRemove, no call carries a domain that is both desired and current, and
\* whatever calls fail, no step of the run changes whether such a domain is
\* in the remote denylist.
C16_MinimalMutation ==
    /\ [](/\ Submitted("add") \subseteq domains_to_add
          /\ Submitted("remove") \subseteq domains_to_remove
          /\ (Submitted("add") \cup Submitted("remove")) \cap Settled = {}
          /\ Settled \subseteq remote)
    /\ [][ext_writes' = ext_writes
            => \A d \in Settled : (d \in remote') <=> (d \in remote)]_vars

C16_Witness ==
    /\ pc = "Completed"
    /\ Settled # {}
    /\ CallsOf("add") # <<>>
    /\ CallsOf("remove") # <<>>
    /\ FailedCalls("add") # <<>>
    /\ FailedCalls("remove") # <<>>
    /\ Settled \subseteq remote

\* the baseline read of the current run was answered
ReadAnswered ==
    \E i \in 1..Len(calls) : calls[i].op = "read" /\ calls[i].result = "ok"

\* C17 (as claimed): in a second run, with unchanged sources and no other
\* writer, whose baseline read is answered: if every mutation of the first
\* run succeeded the run is UpToDate with no mutation call, and otherwise
\* ToAdd and ToRemove are exactly the domains whose calls failed in the
\* first run.
C17_RerunIdempotence ==
    (prev.ran /\ ext_writes = 0 /\ ReadAnswered)
        => /\ prev.all_ok => pc = "UpToDate" /\ MutationCalls = <<>>
           /\ ~ prev.all_ok => /\ domains_to_add = prev.failed_add
                               /\ domains_to_remove = prev.failed_remove

\* C17 (amended): in a second run with unchanged sources and no other writer,
\* no mutation call is issued if every mutation of the first run succeeded,
\* and once the baseline is read: the run is UpToDate in that case; ToAdd and
\* ToRemove hold only domains whose calls failed in the first run, namely
\* those of them the service had not applied, and among them every domain
\* whose call was answered with an error status.
C17_RerunRecovers ==
    (prev.ran /\ ext_writes = 0)
        => /\ prev.all_ok => MutationCalls = <<>>
           /\ ReadAnswered
                => /\ prev.all_ok => pc = "UpToDate"
                   /\ domains_to_add = prev.failed_add \ current_domains
                   /\ domains_to_remove = prev.failed_remove \cap current_domains
                   /\ prev.rejected_add \subseteq domains_to_add
                   /\ prev.rejected_remove \subseteq domains_to_remove

C17_Witness ==
    /\ prev.ran
    /\ ext_writes = 0
    /\ pc = "Completed"
    /\ prev.failed_add # prev.rejected_add
    /\ prev.rejected_add # {}
    /\ domains_to_add = prev.rejected_add
    /\ domains_to_remove = prev.failed_remove
    /\ remote = desired_domains

\* the domains the parser accepted from the sources that answered in this run
AcceptedFromSources ==
    UNION {ParseText(served[i].text, {}) :
              i \in {k \in 1..Len(served) : served[k].result = "ok"}}

\* C18 (as claimed): no remove call carries a domain that the parser accepted
\* from a source fetched successfully in the same run.
C18_ListedDomainNeverRemoved ==
    Submitted("remove") \cap AcceptedFromSources = {}

====
